---- MODULE Spec2Model ----
(***************************************************************************)
(* A model of the geospatial U-Net repository: the tiler (cut_into_tiles), *)
(* the dataset splitter (split_tiles), the stitcher (jahit_tiles) of       *)
(* utils.py and the layer graph of uncompiled_unet of model.py.            *)
(*                                                                         *)
(* Arrays are records [shape, data]: shape is the numpy shape tuple and    *)
(* data maps every 0-based index tuple to the cell's value.  A dict is the *)
(* sequence of its entries [key, tile] in insertion order, which is the    *)
(* order Python iterates it in.                                            *)
(***************************************************************************)
EXTENDS Integers, Sequences, FiniteSets, TLC

VARIABLES pc, img, tile_size, tiles, output_shape, result, full_img, done,
          satellite_tiles, vegetation_tiles, split, x, feat

vars == <<pc, img, tile_size, tiles, output_shape, result, full_img, done,
          satellite_tiles, vegetation_tiles, split, x, feat>>

tilerVars == <<img, tile_size, tiles, output_shape, result, full_img, done>>
splitVars == <<satellite_tiles, vegetation_tiles, split>>
unetVars == <<x, feat>>

(***************************************************************************)
(* Bounds of the model.                                                    *)
(***************************************************************************)
\* largest raster height and width
MaxDim == 5
\* largest tile size tried
MaxTile == 3
\* largest number of tiles stitched one at a time in an arbitrary order
MaxPar == 4
\* largest number of entries of a caller-built prediction mapping
MaxEntries == 2
\* largest height and width of the stitcher's target, and of its tiles
StitchDim == 3
StitchTile == 2
\* tile_size's default
DefaultTileSize == 224
\* test_size = 0.2 of the split, as the fraction 1 / TestDenominator
TestDenominator == 5
\* number of origin keys the split's tile sets are drawn from
MaxKeys == 5
\* largest input height and width fed to the network
MaxIn == 8

\* the band counts of the rasters tried
Bands == {1, 2}
\* the contents of the rasters tried
Patterns == {"index", "zero", "parity"}

Min(a, b) == IF a < b THEN a ELSE b

(***************************************************************************)
(* numpy arrays                                                            *)
(***************************************************************************)
NoArray == [shape |-> <<>>, data |-> <<>>]

\* np.dstack(bands) of read_tif: an H x W x C raster with the given content
Raster(H, W, C, pat) ==
    [shape |-> <<H, W, C>>,
     data  |-> [p \in (0..H-1) \X (0..W-1) \X (0..C-1) |->
                  CASE pat = "index"  -> 1 + (p[1] * W + p[2]) * C + p[3]
                    [] pat = "zero"   -> 0
                    [] pat = "parity" -> (p[1] + p[2] + p[3]) % 2]]

\* shape of a[i:i+n, j:j+n] for an array of shape shp: a slice is clipped
\* to the array, it never fails
SliceShape(shp, i, j, n) ==
    <<Min(i + n, shp[1]) - Min(i, shp[1]),
      Min(j + n, shp[2]) - Min(j, shp[2])>> \o SubSeq(shp, 3, Len(shp))

\* img[i:i+n, j:j+n] of a 3-D array
Slice(a, i, j, n) ==
    LET s == SliceShape(a.shape, i, j, n)
    IN  [shape |-> s,
         data  |-> [p \in (0..s[1]-1) \X (0..s[2]-1) \X (0..s[3]-1) |->
                      a.data[<<i + p[1], j + p[2], p[3]>>]]]

Ones(shape2) ==
    [shape |-> shape2,
     data  |-> [p \in (0..shape2[1]-1) \X (0..shape2[2]-1) |-> 1]]

\* np.zeros(output_shape[:2])
Zeros(shape2) ==
    [shape |-> shape2,
     data  |-> [p \in (0..shape2[1]-1) \X (0..shape2[2]-1) |-> 0]]

(***************************************************************************)
(* cut_into_tiles                                                          *)
(***************************************************************************)
RangeUnit(stop, step) == [k \in 1..stop |-> k - 1]

\* range(0, stop, step) for step > 0, as a sequence
RangeSeq(stop, step) ==
    [k \in 1..((stop + step - 1) \div step) |-> (k - 1) * step]

\* the (i, j) pairs in the order the two nested loops visit them
LoopOrder(height, width, step) ==
    LET rows == RangeSeq(height, step)
        cols == RangeSeq(width, step)
    IN  [k \in 1..(Len(rows) * Len(cols)) |->
           <<rows[((k - 1) \div Len(cols)) + 1], cols[((k - 1) % Len(cols)) + 1]>>]

TileKeptAlways(shp, size) == TRUE

\* the test that keeps a tile: both extents equal tile_size
TileKept(shp, size) == shp[1] = size /\ shp[2] = size

\* the keys cut_into_tiles stores for an array of the given shape, in
\* insertion order
cut_keys(shp, size) ==
    SelectSeq(LoopOrder(shp[1], shp[2], size),
              LAMBDA k : TileKept(SliceShape(shp, k[1], k[2], size), size))

cut_into_tiles(a, size) ==
    LET keys == cut_keys(a.shape, size)
    IN  [n \in 1..Len(keys) |->
           [key |-> keys[n], tile |-> Slice(a, keys[n][1], keys[n][2], size)]]

\* dict helpers
Keys(d) == {d[n].key : n \in 1..Len(d)}
Lookup(d, k) == d[CHOOSE n \in 1..Len(d) : d[n].key = k].tile

(***************************************************************************)
(* jahit_tiles                                                             *)
(***************************************************************************)
\* numpy's rule for full_img[...] = value: every extent of the value equals
\* the target's or is 1
Broadcastable(vshape, tshape) ==
    \A d \in 1..2 : vshape[d] = tshape[d] \/ vshape[d] = 1

\* full_img[i:i+size, j:j+size] = tile[..., ch]
PasteChannel(full, i, j, tile, size, ch) ==
    LET t  == SliceShape(full.shape, i, j, size)
        r0 == Min(i, full.shape[1])
        c0 == Min(j, full.shape[2])
        In(p) == /\ r0 <= p[1] /\ p[1] < r0 + t[1]
                 /\ c0 <= p[2] /\ p[2] < c0 + t[2]
        Src(p) == <<IF tile.shape[1] = 1 THEN 0 ELSE p[1] - r0,
                    IF tile.shape[2] = 1 THEN 0 ELSE p[2] - c0, ch>>
    IN  [full EXCEPT !.data =
           [p \in DOMAIN full.data |->
              IF In(p) THEN tile.data[Src(p)] ELSE full.data[p]]]

PasteLastBand(full, i, j, tile, size) ==
    PasteChannel(full, i, j, tile, size, tile.shape[3] - 1)

\* line 99: the tile's channel 0 goes to the target region
Paste(full, i, j, tile, size) == PasteChannel(full, i, j, tile, size, 0)

CanPaste(full, i, j, tile, size) ==
    Broadcastable(tile.shape, SliceShape(full.shape, i, j, size))

RECURSIVE StitchLoop(_, _, _, _)
StitchLoop(full, d, size, n) ==
    IF n > Len(d) THEN [status |-> "ok", value |-> full]
    ELSE IF ~CanPaste(full, d[n].key[1], d[n].key[2], d[n].tile, size)
         THEN [status |-> "ValueError", value |-> NoArray]
         ELSE StitchLoop(Paste(full, d[n].key[1], d[n].key[2], d[n].tile, size),
                         d, size, n + 1)

jahit_tiles(d, shape) ==
    IF Len(d) = 0
    THEN [status |-> "StopIteration", value |-> NoArray]
    ELSE StitchLoop(Zeros(SubSeq(shape, 1, 2)), d, d[1].tile.shape[1], 1)

(***************************************************************************)
(* The tiling pipeline: a raster is cut into tiles, and the tiles are      *)
(* stitched back, either by one call of jahit_tiles or one tile at a time  *)
(* in an arbitrary order (the per-tile independence of the stitching loop).*)
(***************************************************************************)
NoSplit == [status |-> "none"]

IdleSplit ==
    /\ satellite_tiles = <<>> /\ vegetation_tiles = <<>> /\ split = NoSplit

IdleUnet == x = <<>> /\ feat = <<>>

IdleTiler ==
    /\ img = NoArray /\ tile_size = 0 /\ tiles = <<>> /\ output_shape = <<>>
    /\ result = [status |-> "none", value |-> NoArray]
    /\ full_img = NoArray /\ done = {}

InitTiler ==
    /\ pc = "start"
    /\ \E H \in 1..MaxDim, W \in 1..MaxDim, C \in Bands, pat \in Patterns :
         /\ img = Raster(H, W, C, pat)
         /\ output_shape \in {<<H, W>>, <<H, W, C>>}
    /\ tile_size \in 1..MaxTile
    /\ tiles = <<>>
    /\ result = [status |-> "none", value |-> NoArray]
    /\ full_img = NoArray
    /\ done = {}
    /\ IdleSplit /\ IdleUnet

CutIntoTiles ==
    /\ pc = "start"
    /\ tiles' = cut_into_tiles(img, tile_size)
    /\ pc' = "tiled"
    /\ UNCHANGED <<img, tile_size, output_shape, result, full_img, done>>
    /\ UNCHANGED <<splitVars, unetVars>>

JahitTiles ==
    /\ pc = "tiled"
    /\ result' = jahit_tiles(tiles, output_shape)
    /\ pc' = "stitched"
    /\ UNCHANGED <<img, tile_size, tiles, output_shape, full_img, done>>
    /\ UNCHANGED <<splitVars, unetVars>>

\* lines 96-97 of the stitcher, run ahead of a loop whose iterations are
\* taken in any order
StitchBegin ==
    /\ pc = "tiled"
    /\ Len(tiles) <= MaxPar
    /\ IF Len(tiles) = 0
       THEN /\ result' = [status |-> "StopIteration", value |-> NoArray]
            /\ pc' = "joined"
            /\ UNCHANGED full_img
       ELSE /\ full_img' = Zeros(SubSeq(output_shape, 1, 2))
            /\ pc' = "stitching"
            /\ UNCHANGED result
    /\ UNCHANGED <<img, tile_size, tiles, output_shape, done>>
    /\ UNCHANGED <<splitVars, unetVars>>

\* one iteration of the loop of line 98, for any entry not yet written
StitchOne ==
    /\ pc = "stitching"
    /\ \E n \in (1..Len(tiles)) \ done :
         LET size == tiles[1].tile.shape[1]
             i == tiles[n].key[1]
             j == tiles[n].key[2]
         IN  IF CanPaste(full_img, i, j, tiles[n].tile, size)
             THEN /\ full_img' = Paste(full_img, i, j, tiles[n].tile, size)
                  /\ done' = done \cup {n}
                  /\ UNCHANGED <<pc, result>>
             ELSE /\ result' = [status |-> "ValueError", value |-> NoArray]
                  /\ pc' = "joined"
                  /\ UNCHANGED <<full_img, done>>
    /\ UNCHANGED <<img, tile_size, tiles, output_shape>>
    /\ UNCHANGED <<splitVars, unetVars>>

StitchReturn ==
    /\ pc = "stitching"
    /\ done = 1..Len(tiles)
    /\ result' = [status |-> "ok", value |-> full_img]
    /\ pc' = "joined"
    /\ UNCHANGED <<img, tile_size, tiles, output_shape, full_img, done>>
    /\ UNCHANGED <<splitVars, unetVars>>

NextTiler == CutIntoTiles \/ JahitTiles \/ StitchBegin \/ StitchOne \/ StitchReturn

SpecTiler == InitTiler /\ [][NextTiler]_vars

(***************************************************************************)
(* The stitcher on a mapping its caller built: single-band prediction      *)
(* tiles of one size under arbitrary distinct keys, in any insertion order.*)
(***************************************************************************)
PredContents == {"index", "parity"}

\* the n-th prediction tile of a mapping: size x size x 1
PredTile(n, size, pat) ==
    [shape |-> <<size, size, 1>>,
     data  |-> [p \in (0..size-1) \X (0..size-1) \X {0} |->
                  IF pat = "index" THEN 1 + (n * size + p[1]) * size + p[2]
                  ELSE (n + p[1] + p[2]) % 2]]

StitchKeys == (0..StitchDim-1) \X (0..StitchDim-1)

\* the sequences of at most MaxEntries distinct keys
KeySeqs ==
    UNION {{s \in [1..n -> StitchKeys] : \A a, b \in 1..n : a # b => s[a] # s[b]} :
             n \in 0..MaxEntries}

InitStitch ==
    /\ pc = "tiled"
    /\ \E ks \in KeySeqs, size \in 1..StitchTile, pat \in PredContents :
         tiles = [n \in 1..Len(ks) |-> [key |-> ks[n], tile |-> PredTile(n, size, pat)]]
    /\ \E H \in (StitchDim-1)..StitchDim, W \in (StitchDim-1)..StitchDim :
         output_shape \in {<<H, W>>, <<H, W, 1>>}
    /\ img = NoArray /\ tile_size = 0
    /\ result = [status |-> "none", value |-> NoArray]
    /\ full_img = NoArray
    /\ done = {}
    /\ IdleSplit /\ IdleUnet

NextStitch == JahitTiles

SpecStitch == InitStitch /\ [][NextStitch]_vars

(***************************************************************************)
(* split_tiles                                                             *)
(***************************************************************************)
RECURSIVE Perms(_)
\* the orders rng.permutation can put the members of S in
Perms(S) ==
    IF S = {} THEN {<<>>}
    ELSE UNION {{<<e>> \o q : q \in Perms(S \ {e})} : e \in S}

\* ceil(test_size * n_samples): 0.2 * n rounds to the exact fifth in double
\* arithmetic for every n the model reaches
NTest(n) == (n + TestDenominator - 1) \div TestDenominator

\* n_train = n_samples - n_test
NTrain(n) == n - NTest(n)

\* the permutation's first n_test places are the test side
TestPart(indices, perm, n) == [k \in 1..NTest(n) |-> indices[perm[k]]]

TrainPartFromStart(indices, perm, n) == [k \in 1..NTrain(n) |-> indices[perm[k]]]

\* the next n_train places are the train side
TrainPart(indices, perm, n) ==
    [k \in 1..NTrain(n) |-> indices[perm[NTest(n) + k]]]

\* train_test_split(tile_indices, test_size=0.2) under one permutation: an
\* empty train side is refused with a ValueError
train_test_split(indices, perm) ==
    LET n == Len(indices)
    IN  IF NTrain(n) = 0
        THEN [status |-> "ValueError"]
        ELSE [status |-> "ok",
              train  |-> TrainPart(indices, perm, n),
              test   |-> TestPart(indices, perm, n)]

GatherDictOrder(d, idxs) ==
    LET pos   == SelectSeq([n \in 1..Len(d) |-> n],
                           LAMBDA n : \E k \in 1..Len(idxs) : idxs[k] = d[n].key)
        avail == Len(pos) = Len(idxs)
    IN  IF avail
        THEN [status |-> "ok", value |-> [k \in 1..Len(pos) |-> d[pos[k]].tile]]
        ELSE [status |-> "KeyError",
              key |-> idxs[CHOOSE k \in 1..Len(idxs) : idxs[k] \notin Keys(d)]]

\* np.array([d[idx] for idx in idxs]): the first key the dict lacks raises
\* KeyError(key)
Gather(d, idxs) ==
    LET missing == {k \in 1..Len(idxs) : idxs[k] \notin Keys(d)}
    IN  IF missing = {}
        THEN [status |-> "ok", value |-> [k \in 1..Len(idxs) |-> Lookup(d, idxs[k])]]
        ELSE [status |-> "KeyError",
              key |-> idxs[CHOOSE k \in missing : \A m \in missing : k <= m]]

split_tiles(sat, veg, perm) ==
    LET tile_indices == [n \in 1..Len(sat) |-> sat[n].key]
        tt == train_test_split(tile_indices, perm)
    IN  IF tt.status # "ok" THEN [status |-> "ValueError"]
        ELSE LET sat_train == Gather(sat, tt.train)
                 veg_train == Gather(veg, tt.train)
                 sat_test  == Gather(sat, tt.test)
                 veg_test  == Gather(veg, tt.test)
                 failed == SelectSeq(<<sat_train, veg_train, sat_test, veg_test>>,
                                     LAMBDA g : g.status # "ok")
             IN  IF Len(failed) > 0
                 THEN [status |-> "KeyError", key |-> failed[1].key]
                 ELSE [status |-> "ok",
                       train_indices |-> tt.train,
                       test_indices  |-> tt.test,
                       sat_train |-> sat_train.value,
                       veg_train |-> veg_train.value,
                       sat_test  |-> sat_test.value,
                       veg_test  |-> veg_test.value]

\* the n-th origin key of the tile grid of a two-column raster
KeyAt(n) == <<2 * ((n - 1) \div 2), 2 * ((n - 1) % 2)>>

\* the tile stored under the n-th key: satellite tiles and label tiles
\* differ, and so do the tiles of different keys
TileAt(n, label) ==
    [shape |-> <<1, 1, 1>>,
     data  |-> [p \in {<<0, 0, 0>>} |-> IF label THEN 100 + n ELSE n]]

\* the dict holding the keys numbered in S, inserted in ascending order
TileSet(S, label) ==
    LET ord == SelectSeq([n \in 1..MaxKeys |-> n], LAMBDA n : n \in S)
    IN  [k \in 1..Len(ord) |-> [key |-> KeyAt(ord[k]), tile |-> TileAt(ord[k], label)]]

InitSplit ==
    /\ pc = "tiled"
    /\ \E S \in SUBSET (1..MaxKeys) : satellite_tiles = TileSet(S, FALSE)
    /\ \E V \in SUBSET (1..MaxKeys) : vegetation_tiles = TileSet(V, TRUE)
    /\ split = NoSplit
    /\ IdleTiler /\ IdleUnet

SplitTiles ==
    /\ pc = "tiled"
    /\ \E perm \in Perms(1..Len(satellite_tiles)) :
         split' = split_tiles(satellite_tiles, vegetation_tiles, perm)
    /\ pc' = "split"
    /\ UNCHANGED <<satellite_tiles, vegetation_tiles, tilerVars, unetVars>>

NextSplit == SplitTiles

SpecSplit == InitSplit /\ [][NextSplit]_vars

(***************************************************************************)
(* uncompiled_unet: one forward pass of the layer graph on an input of a   *)
(* concrete shape (height, width, channels), one action per layer.         *)
(***************************************************************************)
\* the channel counts of the inputs tried
Channels == {1, 3, 4, 5}

\* Keras' length of a convolution or pooling output along one axis
OutLength(n, window, padding, stride) ==
    LET len == IF padding = "same" THEN n ELSE n - window + 1
    IN  (len + stride - 1) \div stride

ConvShapeValid(shp, filters, k, padding) ==
    <<OutLength(shp[1], k, "valid", 1), OutLength(shp[2], k, "valid", 1), filters>>

\* Conv2D(filters, (k, k), padding=padding), stride 1
ConvShape(shp, filters, k, padding) ==
    <<OutLength(shp[1], k, padding, 1), OutLength(shp[2], k, padding, 1), filters>>

\* MaxPooling2D(pool_size=(2, 2)): stride 2, padding "valid"
PoolShape(shp) ==
    <<OutLength(shp[1], 2, "valid", 2), OutLength(shp[2], 2, "valid", 2), shp[3]>>

\* UpSampling2D(size=(2, 2))
UpShape(shp) == <<2 * shp[1], 2 * shp[2], shp[3]>>

ConcatAlways(a, b) == TRUE

\* concatenate(axis=3) takes inputs that agree on every other axis
ConcatOK(a, b) == a[1] = b[1] /\ a[2] = b[2]

ConcatShape(a, b) == <<a[1], a[2], a[3] + b[3]>>

InitUnet ==
    /\ pc = "call"
    /\ \E H \in 1..MaxIn, W \in 1..MaxIn, C \in Channels : x = <<H, W, C>>
    /\ feat = <<>>
    /\ IdleTiler /\ IdleSplit

\* a layer's output becomes the current tensor and is kept under its name
Layer(from, to, shp) ==
    /\ pc = from
    /\ pc' = to
    /\ x' = shp
    /\ feat' = feat @@ (to :> shp)
    /\ UNCHANGED <<tilerVars, splitVars>>

Fail(from, to) ==
    /\ pc = from
    /\ pc' = to
    /\ UNCHANGED <<x, feat, tilerVars, splitVars>>

\* Input((None, None, 4)): any height and width, 4 channels
Inputs ==
    \/ x[3] = 4 /\ Layer("call", "inputs", x)
    \/ x[3] # 4 /\ Fail("call", "error_inputs")

Conv1 == Layer("inputs", "conv1", ConvShape(x, 32, 3, "same"))
Pool1 == Layer("conv1", "pool1", PoolShape(x))
Conv2 == Layer("pool1", "conv2", ConvShape(x, 64, 3, "same"))
Pool2 == Layer("conv2", "pool2", PoolShape(x))
Conv3 == Layer("pool2", "conv3", ConvShape(x, 128, 3, "same"))

Up4 ==
    /\ pc = "conv3"
    /\ \/ /\ ConcatOK(UpShape(x), feat["conv2"])
          /\ Layer("conv3", "up4", ConcatShape(UpShape(x), feat["conv2"]))
       \/ /\ ~ConcatOK(UpShape(x), feat["conv2"])
          /\ Fail("conv3", "error_up4")

Conv4 == Layer("up4", "conv4", ConvShape(x, 64, 3, "same"))

Up5 ==
    /\ pc = "conv4"
    /\ \/ /\ ConcatOK(UpShape(x), feat["conv1"])
          /\ Layer("conv4", "up5", ConcatShape(UpShape(x), feat["conv1"]))
       \/ /\ ~ConcatOK(UpShape(x), feat["conv1"])
          /\ Fail("conv4", "error_up5")

Conv5 == Layer("up5", "conv5", ConvShape(x, 32, 3, "same"))
Output == Layer("conv5", "output", ConvShape(x, 1, 1, "valid"))

NextUnet ==
    \/ Inputs \/ Conv1 \/ Pool1 \/ Conv2 \/ Pool2 \/ Conv3
    \/ Up4 \/ Conv4 \/ Up5 \/ Conv5 \/ Output

SpecUnet == InitUnet /\ [][NextUnet]_vars

(***************************************************************************)
(* Properties of the tiler and the stitcher                                *)
(***************************************************************************)
Height == img.shape[1]
Width  == img.shape[2]
Depth  == img.shape[3]

\* the region [row, row+size) x [col, col+size) of a key holds the cell
InRegion(k, size, r, c) ==
    /\ k[1] <= r /\ r < k[1] + size
    /\ k[2] <= c /\ c < k[2] + size

RegionsDisjoint(d, size) ==
    \A a, b \in 1..Len(d) :
       a # b => ~ \E r \in d[a].key[1]..(d[a].key[1] + size - 1),
                     c \in d[a].key[2]..(d[a].key[2] + size - 1) :
                       InRegion(d[b].key, size, r, c)

RegionsInside(d, size, shape) ==
    \A n \in 1..Len(d) :
       d[n].key[1] + size <= shape[1] /\ d[n].key[2] + size <= shape[2]

\* C1: cut_into_tiles stores exactly the keys (r*T, c*T) with r < H div T and
\* c < W div T, once each; the tile under (row, col) has shape (T, T, C) and
\* is img[row:row+T, col:col+T, :]; no key reaches into the remainder strip.
C1_TileKeySpace ==
    pc # "start" =>
      /\ Keys(tiles) = {<<r * tile_size, c * tile_size>> :
                          r \in 0..((Height \div tile_size) - 1),
                          c \in 0..((Width \div tile_size) - 1)}
      /\ Len(tiles) = (Height \div tile_size) * (Width \div tile_size)
      /\ \A n \in 1..Len(tiles) :
           LET k == tiles[n].key
               t == tiles[n].tile
           IN  /\ t.shape = <<tile_size, tile_size, Depth>>
               /\ DOMAIN t.data = (0..tile_size-1) \X (0..tile_size-1) \X (0..Depth-1)
               /\ \A p \in DOMAIN t.data :
                    t.data[p] = img.data[<<k[1] + p[1], k[2] + p[2], p[3]>>]
               /\ k[1] + tile_size <= Height
               /\ k[2] + tile_size <= Width

C1_Witness ==
    /\ pc = "tiled"
    /\ Height % tile_size # 0
    /\ Width % tile_size # 0
    /\ Len(tiles) >= 2
    /\ Depth = 2

\* C2: for T <= H and T <= W the stitched tiling is an H x W array that is
\* band 0 of img on the covered region (row < (H div T)*T, col < (W div T)*T)
\* and 0 elsewhere; a 448 x 448 raster cut at 224 has exactly the keys
\* (0,0), (0,224), (224,0), (224,224).
C2_RoundTrip ==
    /\ cut_keys(<<2 * DefaultTileSize, 2 * DefaultTileSize, 4>>, DefaultTileSize)
         = << <<0, 0>>, <<0, DefaultTileSize>>,
              <<DefaultTileSize, 0>>, <<DefaultTileSize, DefaultTileSize>> >>
    /\ (pc = "stitched" /\ tile_size <= Height /\ tile_size <= Width) =>
         /\ result.status = "ok"
         /\ result.value.shape = <<Height, Width>>
         /\ DOMAIN result.value.data = (0..Height-1) \X (0..Width-1)
         /\ \A p \in DOMAIN result.value.data :
              result.value.data[p] =
                IF /\ p[1] < (Height \div tile_size) * tile_size
                   /\ p[2] < (Width \div tile_size) * tile_size
                THEN img.data[<<p[1], p[2], 0>>]
                ELSE 0

C2_Witness ==
    /\ pc = "stitched"
    /\ result.status = "ok"
    /\ Len(tiles) = 4
    /\ Height = 2 * tile_size /\ Width = 2 * tile_size
    /\ Depth = 2
    /\ \A p \in DOMAIN result.value.data : result.value.data[p] # 0

C2_WitnessStrip ==
    /\ pc = "stitched"
    /\ result.status = "ok"
    /\ Height % tile_size # 0
    /\ \E p \in DOMAIN result.value.data :
         /\ p[1] >= (Height \div tile_size) * tile_size
         /\ img.data[<<p[1], p[2], 0>>] # 0
         /\ result.value.data[p] = 0

\* C10: the regions of the tiles cut_into_tiles produces are pairwise
\* disjoint, no cell is written by more than one tile, and stitching the
\* tiles one at a time in any order returns what the sequential jahit_tiles
\* returns.
C10_OrderIndependent ==
    /\ pc # "start" => RegionsDisjoint(tiles, tile_size)
    /\ pc \in {"stitching", "joined"} =>
         \A r \in 0..(Height - 1), c \in 0..(Width - 1) :
            Cardinality({n \in done : InRegion(tiles[n].key, tile_size, r, c)}) <= 1
    /\ pc = "joined" => result = jahit_tiles(tiles, output_shape)

C10_Witness ==
    /\ pc = "joined"
    /\ result.status = "ok"
    /\ Len(tiles) = 4
    /\ \A p \in DOMAIN result.value.data : result.value.data[p] # 0

\* C5: stitching an empty mapping ends in a descriptive error about the
\* empty input, not in the StopIteration of next() and not in an array.
C5_EmptyMappingDescriptiveError ==
    (pc = "stitched" /\ Len(tiles) = 0) =>
       result.status \notin {"StopIteration", "ok"}

\* C6: for a non-empty mapping of tiles of one size whose regions lie
\* inside the target and do not overlap, jahit_tiles returns a 2-D
\* height x width array (a third entry of output_shape is ignored) whose
\* cells inside a tile's region hold the tile's channel 0 and whose other
\* cells hold 0.
C6_Precondition ==
    /\ Len(tiles) >= 1
    /\ \A n \in 1..Len(tiles) :
         tiles[n].tile.shape[1] = tiles[1].tile.shape[1]
         /\ tiles[n].tile.shape[2] = tiles[1].tile.shape[1]
    /\ RegionsInside(tiles, tiles[1].tile.shape[1], output_shape)
    /\ RegionsDisjoint(tiles, tiles[1].tile.shape[1])

C6_StitchSparse ==
    (pc = "stitched" /\ C6_Precondition) =>
       LET size == tiles[1].tile.shape[1]
           Covering(p) == {n \in 1..Len(tiles) : InRegion(tiles[n].key, size, p[1], p[2])}
       IN  /\ result.status = "ok"
           /\ result.value.shape = <<output_shape[1], output_shape[2]>>
           /\ DOMAIN result.value.data =
                (0..output_shape[1]-1) \X (0..output_shape[2]-1)
           /\ \A p \in DOMAIN result.value.data :
                /\ Covering(p) = {} => result.value.data[p] = 0
                /\ \A n \in Covering(p) :
                     result.value.data[p] =
                       tiles[n].tile.data[<<p[1] - tiles[n].key[1],
                                            p[2] - tiles[n].key[2], 0>>]

C6_Witness ==
    /\ pc = "stitched"
    /\ C6_Precondition
    /\ Len(tiles) = 2
    /\ Len(output_shape) = 3
    /\ tiles[1].key # <<0, 0>> /\ tiles[2].key[1] < tiles[1].key[1]
    /\ \E p \in DOMAIN result.value.data : result.value.data[p] = 0
    /\ \E p \in DOMAIN result.value.data : result.value.data[p] > 1

(***************************************************************************)
(* Properties of the splitter                                              *)
(***************************************************************************)
Range(q) == {q[k] : k \in 1..Len(q)}

Abs(n) == IF n < 0 THEN -n ELSE n

\* round(f * N) for f = 1 / TestDenominator (no N makes it a tie)
RoundedTest(n) == (2 * n + TestDenominator) \div (2 * TestDenominator)

SplitPartition ==
    LET n == Len(satellite_tiles)
    IN  /\ split.status = "ok"
        /\ Len(split.train_indices) + Len(split.test_indices) = n
        /\ Range(split.train_indices) \cap Range(split.test_indices) = {}
        /\ Range(split.train_indices) \cup Range(split.test_indices)
             = Keys(satellite_tiles)
        /\ Cardinality(Range(split.train_indices)) = Len(split.train_indices)
        /\ Cardinality(Range(split.test_indices)) = Len(split.test_indices)
        /\ Abs(Len(split.test_indices) - RoundedTest(n)) <= 1

\* C3 as claimed: for every N >= 1, N = 1 included, the split returns a
\* partition of the satellite keys with |test| within one of round(f*N).
C3_SplitEveryN ==
    (/\ pc = "split"
     /\ Len(satellite_tiles) >= 1
     /\ Keys(vegetation_tiles) = Keys(satellite_tiles)) => SplitPartition

\* C3 as amended: the same for every N >= 2; for N = 1 the split raises a
\* ValueError, its train side being empty.
C3_SplitFromTwo ==
    /\ (/\ pc = "split"
        /\ Len(satellite_tiles) >= 2
        /\ Keys(vegetation_tiles) = Keys(satellite_tiles)) => SplitPartition
    /\ (pc = "split" /\ Len(satellite_tiles) = 1) => split.status = "ValueError"

C3_Witness ==
    /\ pc = "split"
    /\ Len(satellite_tiles) = MaxKeys
    /\ Keys(vegetation_tiles) = Keys(satellite_tiles)
    /\ split.status = "ok"
    /\ Len(split.test_indices) = 1
    /\ split.test_indices[1] = KeyAt(2)

\* C4: when the two key sets differ, split_tiles fails with a lookup error
\* naming a key one of the sets lacks, and returns nothing.
C4_MismatchFails ==
    (pc = "split" /\ Keys(satellite_tiles) # Keys(vegetation_tiles)) =>
       /\ split.status = "KeyError"
       /\ split.key \in (Keys(satellite_tiles) \ Keys(vegetation_tiles))
                          \cup (Keys(vegetation_tiles) \ Keys(satellite_tiles))

\* the split returns arrays although the label set holds a key the
\* satellite set lacks
C4_WitnessReturned ==
    /\ pc = "split"
    /\ Keys(vegetation_tiles) \ Keys(satellite_tiles) # {}
    /\ split.status = "ok"

\* C7: sat_train[k] and veg_train[k] are the two tiles stored under
\* train_indices[k], sat_test[k] and veg_test[k] those under test_indices[k];
\* the four stacks are as long as their key list.
C7_PairedByKey ==
    (pc = "split" /\ split.status = "ok") =>
       /\ Len(split.sat_train) = Len(split.train_indices)
       /\ Len(split.veg_train) = Len(split.train_indices)
       /\ Len(split.sat_test) = Len(split.test_indices)
       /\ Len(split.veg_test) = Len(split.test_indices)
       /\ \A k \in 1..Len(split.train_indices) :
            /\ split.sat_train[k] = Lookup(satellite_tiles, split.train_indices[k])
            /\ split.veg_train[k] = Lookup(vegetation_tiles, split.train_indices[k])
            /\ split.veg_train[k].data[<<0, 0, 0>>]
                 = 100 + split.sat_train[k].data[<<0, 0, 0>>]
       /\ \A k \in 1..Len(split.test_indices) :
            /\ split.sat_test[k] = Lookup(satellite_tiles, split.test_indices[k])
            /\ split.veg_test[k] = Lookup(vegetation_tiles, split.test_indices[k])
            /\ split.veg_test[k].data[<<0, 0, 0>>]
                 = 100 + split.sat_test[k].data[<<0, 0, 0>>]

C7_Witness ==
    /\ pc = "split"
    /\ split.status = "ok"
    /\ Len(split.train_indices) >= 3
    /\ split.train_indices[1] = KeyAt(3)
    /\ split.train_indices[2] = KeyAt(1)
    /\ split.sat_train[2] = TileAt(1, FALSE)
    /\ split.veg_train[2] = TileAt(1, TRUE)

(***************************************************************************)
(* Properties of the network                                               *)
(***************************************************************************)
Has(name) == name \in DOMAIN feat

UnetErrors == {"error_inputs", "error_up4", "error_up5"}

\* C8: for an input (H, W, 4) with H and W positive multiples of 4 the
\* convolutions keep the spatial size, each pooling halves it, each
\* upsampling doubles it, the upsampled bottleneck has the size of conv2
\* (H/2 x W/2) and the next upsampled result that of conv1 (H x W), the
\* concatenations have 128+64 and 64+32 channels, and the output is (H, W, 1).
C8_ShapeArithmetic ==
    (x[3] = 4 /\ x[1] % 4 = 0 /\ x[2] % 4 = 0 /\ pc = "call") \/
    (Has("inputs") /\ feat["inputs"][1] % 4 = 0 /\ feat["inputs"][2] % 4 = 0) =>
       LET H == IF Has("inputs") THEN feat["inputs"][1] ELSE x[1]
           W == IF Has("inputs") THEN feat["inputs"][2] ELSE x[2]
       IN  /\ pc \notin UnetErrors
           /\ Has("conv1") => feat["conv1"] = <<H, W, 32>>
           /\ Has("pool1") => feat["pool1"] = <<H \div 2, W \div 2, 32>>
           /\ Has("conv2") => feat["conv2"] = <<H \div 2, W \div 2, 64>>
           /\ Has("pool2") => feat["pool2"] = <<H \div 4, W \div 4, 64>>
           /\ Has("conv3") => feat["conv3"] = <<H \div 4, W \div 4, 128>>
           /\ Has("up4") => feat["up4"] = <<H \div 2, W \div 2, 128 + 64>>
           /\ Has("conv4") => feat["conv4"] = <<H \div 2, W \div 2, 64>>
           /\ Has("up5") => feat["up5"] = <<H, W, 64 + 32>>
           /\ Has("conv5") => feat["conv5"] = <<H, W, 32>>
           /\ Has("output") => feat["output"] = <<H, W, 1>>
           /\ pc = "output" => x = <<H, W, 1>>
           /\ pc \in UnetErrors \/ pc = "output" \/ ENABLED NextUnet

C8_Witness ==
    /\ pc = "output"
    /\ feat["inputs"] = <<8, 4, 4>>
    /\ x = <<8, 4, 1>>

\* C9: an input whose height or width is not a multiple of 4, or that has
\* not 4 channels, ends in a shape mismatch at the input layer or at one of
\* the two concatenations; it never yields an output.
BadInput ==
    LET inp == IF Has("inputs") THEN feat["inputs"] ELSE x
    IN  inp[1] % 4 # 0 \/ inp[2] % 4 # 0 \/ inp[3] # 4

C9_MalformedInputFails ==
    BadInput =>
       /\ pc # "output"
       /\ ~Has("output")
       /\ pc \in UnetErrors \/ ENABLED NextUnet
       /\ (pc # "call" /\ x[3] # 4 /\ ~Has("inputs")) => pc = "error_inputs"

C9_Witness ==
    /\ pc = "error_up5"
    /\ feat["inputs"] = <<5, 8, 4>>
    /\ Has("up4")

C9_WitnessChannels ==
    /\ pc = "error_inputs"
    /\ x = <<4, 4, 3>>

====
